---- MODULE Spec2Model ----
(***************************************************************************)
(* Identity resolution between Harvest users and Deel contracts:           *)
(* src/Payroll/matcher.py (UserMatcher), src/Payroll/database.py           *)
(* (MappingDatabase), src/Payroll/deel_client.py (external_id tags) and    *)
(* the entry points sync_mappings.py, main.py, initial_setup.py and        *)
(* review_matches.py.                                                      *)
(*                                                                         *)
(* Numbers.  A similarity score k stands for k/Grid (fuzz score / 100).    *)
(* A confidence is the exact fraction [num, den]; thresholds are given in  *)
(* percent; every comparison is done by cross-multiplication.              *)
(***************************************************************************)
EXTENDS Integers, Sequences, FiniteSets, TLC

VARIABLES
    \* --- the matcher and the locals of the code that calls it ---
    pc,             \* position of the running entry point ("idle" when none runs)
    matcher,        \* UserMatcher instance: [auto_accept, review_threshold] (percent)
    harvest_user,   \* the Harvest user being resolved
    deel_contracts, \* the candidate list (deel.get_all_contracts())
    all_matches,    \* find_best_match's local (observed in SpecMatch only)
    match_result,   \* what find_best_match returned: <<>> (None) or <<MatchResult>>
    \* --- persistent state ---
    store,          \* table user_mappings: the rows in insertion (rowid) order
    tags,           \* Deel's external_id per contract: a Harvest user id or NoneId
    \* --- the running entry point and its locals ---
    run,            \* "idle" | "sync" | "payroll" | "bulk" | "review"
    dry_run,        \* the dry_run argument
    existing,       \* sync: result of the store lookup
    contract,       \* result of find_contract_by_external_id (a contract id)
    deel_contract_id, \* payroll: the contract the timesheet goes to
    results,        \* the four result lists of the run
    pending,        \* review: the rows read by get_pending_reviews()
    submitted,      \* payroll: <<user id, contract id>> of the timesheets submitted
    \* --- two connections writing to the table at once (SpecRace only) ---
    writers,        \* per connection: position in create_mapping, arguments, transaction
    db_lock,        \* the connection holding SQLite's write lock, or NoneId
    commit_log,     \* the connections in the order they committed
    \* --- normalize_name applied to a string (SpecNorm only) ---
    raw_name,       \* the argument: a sequence of one-character strings
    normalized      \* the successive results of normalize_name

matchVars == <<pc, matcher, harvest_user, deel_contracts, all_matches, match_result>>
dbVars == <<store, tags>>
runVars == <<run, dry_run, existing, contract, deel_contract_id, results, pending, submitted>>
raceVars == <<writers, db_lock, commit_log>>
nameVars == <<raw_name, normalized>>
vars == <<matchVars, dbVars, runVars, raceVars, nameVars>>

---------------------------------------------------------------------------
\* Bounds of the model
Grid == 20
MaxCands == 3
MaxNameLen == 3

\* Python's None: an optional record is <<>> (None) or <<r>>; an optional
\* string is NoneStr or a sequence of one-character strings
NoneStr == <<"None">>
\* an id that is None, and a local not assigned yet in this iteration
NoneId == 0
Unassigned == 0 - 1

---------------------------------------------------------------------------
\* Generic helpers

Range(s) == {s[i] : i \in DOMAIN s}

Max2(a, b) == IF a >= b THEN a ELSE b

---------------------------------------------------------------------------
\* Strings as sequences of one-character strings (emails)

WhiteSpace == {" "}
LowerOf(c) == IF c = "A" THEN "a" ELSE IF c = "B" THEN "b" ELSE c

lower(s) == [i \in DOMAIN s |-> LowerOf(s[i])]

RECURSIVE lstrip(_)
lstrip(s) == IF s # <<>> /\ Head(s) \in WhiteSpace THEN lstrip(Tail(s)) ELSE s

RECURSIVE rstrip(_)
rstrip(s) ==
    IF s # <<>> /\ s[Len(s)] \in WhiteSpace THEN rstrip(SubSeq(s, 1, Len(s) - 1)) ELSE s

strip(s) == rstrip(lstrip(s))

\* mutant of normalize_email: lowercases and does not strip
normalize_email_lower_only(email) ==
    IF email = NoneStr \/ email = <<>> THEN <<>> ELSE lower(email)

\* UserMatcher.normalize_email: "" for a falsy email (None or ""), else lower().strip()
normalize_email(email) ==
    IF email = NoneStr \/ email = <<>> THEN <<>> ELSE strip(lower(email))

---------------------------------------------------------------------------
\* UserMatcher.normalize_name on strings over a small alphabet

\* unicodedata.normalize('NFKD', name): an accented letter becomes the letter
\* followed by a combining mark
Decompose(c) == IF c = "é" THEN <<"e", "COMBINING ACUTE ACCENT">> ELSE <<c>>

RECURSIVE nfkd(_)
nfkd(s) == IF s = <<>> THEN <<>> ELSE Decompose(Head(s)) \o nfkd(Tail(s))

AsciiChars == {"a", "b", "e", "A", "B", "0", "_", " ", ".", "-"}

\* name.encode('ascii', 'ignore').decode('utf-8')
ascii_ignore(s) == SelectSeq(s, LAMBDA c : c \in AsciiChars)

\* re.sub(r'\s+', ' ', name)
RECURSIVE collapse_whitespace(_)
collapse_whitespace(s) ==
    IF s = <<>> THEN <<>>
    ELSE IF Head(s) \in WhiteSpace THEN <<" ">> \o collapse_whitespace(lstrip(Tail(s)))
    ELSE <<Head(s)>> \o collapse_whitespace(Tail(s))

\* \w of the regular expression, on ASCII
WordChars == {"a", "b", "e", "A", "B", "0", "_"}

\* re.sub(r'[^\w\s\-]', '', name)
remove_special(s) == SelectSeq(s, LAMBDA c : c \in WordChars \cup WhiteSpace \cup {"-"})

\* UserMatcher.normalize_name
normalize_name(name) ==
    IF name = <<>> THEN <<>>
    ELSE remove_special(collapse_whitespace(strip(lower(ascii_ignore(nfkd(name))))))

---------------------------------------------------------------------------
\* Name similarity.  The fuzz library is outside the repository: a Deel-side
\* name is represented by the four scores the library gives it against each
\* Harvest name: [empty |-> FALSE, vs |-> [harvest name |-> <<ratio,
\* token_sort, token_set, partial>>]]; a Deel-side name that normalizes to ""
\* has empty = TRUE.  A Harvest-side name is a string, "" when it normalizes
\* to "".

HarvestNames == {"h1", "h2"}
NoScores == <<0, 0, 0, 0>>
EmptyName == [empty |-> TRUE, vs |-> [h \in HarvestNames |-> NoScores]]

fuzz_ratio(n1, n2) == n2.vs[n1][1]
fuzz_token_sort_ratio(n1, n2) == n2.vs[n1][2]
fuzz_token_set_ratio(n1, n2) == n2.vs[n1][3]
fuzz_partial_ratio(n1, n2) == n2.vs[n1][4]

\* mutant of Max4: the partial ratio is left out
Max4_without_last(a, b, c, d) == Max2(Max2(a, b), c)

Max4(a, b, c, d) == Max2(Max2(a, b), Max2(c, d))

\* UserMatcher.compute_name_similarity (n1, n2 already normalized)
compute_name_similarity(n1, n2) ==
    IF n1 = "" \/ n2.empty
    THEN [score |-> 0, method |-> "missing_data"]
    ELSE [score |-> Max4(fuzz_ratio(n1, n2), fuzz_token_sort_ratio(n1, n2),
                         fuzz_token_set_ratio(n1, n2), fuzz_partial_ratio(n1, n2)),
          method |-> "fuzzy_name_match"]

---------------------------------------------------------------------------
\* Confidence and decision

\* weights, scaled by 10 (5.0, 0.5, 5.0)
EmailWeightMatch == 50
EmailWeightNoMatch == 5
NameWeight == 50
\* name similarity at or above 0.95 is accepted whatever the confidence (percent)
NameAcceptPct == 95

\* conf >= pct/100
ConfGE(conf, pct) == 100 * conf.num >= pct * conf.den
\* a > b, a = b as fractions
ConfGT(a, b) == a.num * b.den > b.num * a.den
ConfEQ(a, b) == a.num * b.den = b.num * a.den

\* worker = deel_contract.get('worker') or {}, read with .get(key, '')
NoWorker == [present |-> FALSE, email |-> <<>>, full_name |-> EmptyName]
worker_of(deel_contract) == IF deel_contract.worker.present THEN deel_contract.worker ELSE NoWorker

\* mutant of email_signal: weight 5.0 whenever both sides have an email
email_signal_full_weight_when_present(h_user, deel_contract) ==
    LET harvest_email == normalize_email(h_user.email)
        deel_email    == normalize_email(worker_of(deel_contract).email)
    IN  IF harvest_email # <<>> /\ deel_email # <<>>
        THEN [email_match |-> IF harvest_email = deel_email THEN Grid ELSE 0,
              weight |-> EmailWeightMatch]
        ELSE [email_match |-> 0, weight |-> EmailWeightNoMatch]

\* the email signal and its weight (matcher.py 105-116)
email_signal(h_user, deel_contract) ==
    LET harvest_email == normalize_email(h_user.email)
        deel_email    == normalize_email(worker_of(deel_contract).email)
    IN  IF harvest_email # <<>> /\ deel_email # <<>> /\ harvest_email = deel_email
        THEN [email_match |-> Grid, weight |-> EmailWeightMatch]
        ELSE [email_match |-> 0, weight |-> EmailWeightNoMatch]

\* the name signal: best of title and worker.full_name (matcher.py 120-140)
name_signal(h_user, deel_contract) ==
    LET deel_title       == deel_contract.title
        deel_worker_name == worker_of(deel_contract).full_name
        title_result  == compute_name_similarity(h_user.name, deel_title)
        worker_result == compute_name_similarity(h_user.name, deel_worker_name)
    IN  IF worker_result.score > title_result.score
        THEN [name_similarity |-> worker_result.score, matched_against |-> "worker.full_name",
              name_details |-> worker_result]
        ELSE [name_similarity |-> title_result.score, matched_against |-> "title",
              name_details |-> title_result]

\* mutant of weighted_confidence: divides by the name weight alone
weighted_confidence_name_weight_only(es, ns) ==
    [num |-> es.email_match * es.weight + ns.name_similarity * NameWeight,
     den |-> NameWeight * Grid]

\* sum(signal * weight) / total_weight (matcher.py 143-147)
weighted_confidence(es, ns) ==
    [num |-> es.email_match * es.weight + ns.name_similarity * NameWeight,
     den |-> (es.weight + NameWeight) * Grid]

\* mutant of decide: the thresholds come first, the name rule last
decide_thresholds_first(name_similarity, confidence, m) ==
    IF ConfGE(confidence, m.auto_accept) THEN "auto_accept"
    ELSE IF ConfGE(confidence, m.review_threshold) THEN "needs_review"
    ELSE IF 100 * name_similarity >= NameAcceptPct * Grid THEN "auto_accept"
    ELSE "auto_reject"

\* mutant of decide: the name rule applies only at or above the review threshold
decide_name_rule_needs_review_band(name_similarity, confidence, m) ==
    IF 100 * name_similarity >= NameAcceptPct * Grid
       /\ ConfGE(confidence, m.review_threshold) THEN "auto_accept"
    ELSE IF ConfGE(confidence, m.auto_accept) THEN "auto_accept"
    ELSE IF ConfGE(confidence, m.review_threshold) THEN "needs_review"
    ELSE "auto_reject"

\* the decision chain (matcher.py 151-158)
decide(name_similarity, confidence, m) ==
    IF 100 * name_similarity >= NameAcceptPct * Grid THEN "auto_accept"
    ELSE IF ConfGE(confidence, m.auto_accept) THEN "auto_accept"
    ELSE IF ConfGE(confidence, m.review_threshold) THEN "needs_review"
    ELSE "auto_reject"

\* UserMatcher.match_user
match_user(m, h_user, deel_contract) ==
    LET es == email_signal(h_user, deel_contract)
        ns == name_signal(h_user, deel_contract)
        confidence == weighted_confidence(es, ns)
    IN  [harvest_user_id  |-> h_user.id,
         deel_contract_id |-> deel_contract.id,
         confidence       |-> confidence,
         signals          |-> [email_match |-> es.email_match,
                               name_similarity |-> ns.name_similarity,
                               matched_against |-> ns.matched_against],
         decision         |-> decide(ns.name_similarity, confidence, m)]

\* mutant of insert_sorted: an equal key goes in front (not stable)
RECURSIVE insert_sorted_equal_first(_, _)
insert_sorted_equal_first(sorted, x) ==
    IF sorted = <<>> THEN <<x>>
    ELSE IF ~ConfGT(Head(sorted).confidence, x.confidence) THEN <<x>> \o sorted
    ELSE <<Head(sorted)>> \o insert_sorted_equal_first(Tail(sorted), x)

\* list.sort(key=confidence, reverse=True): stable, equal keys keep their order
RECURSIVE insert_sorted(_, _)
insert_sorted(sorted, x) ==
    IF sorted = <<>> THEN <<x>>
    ELSE IF ConfGT(x.confidence, Head(sorted).confidence) THEN <<x>> \o sorted
    ELSE <<Head(sorted)>> \o insert_sorted(Tail(sorted), x)

RECURSIVE sort_by_confidence(_)
sort_by_confidence(ms) ==
    IF ms = <<>> THEN <<>>
    ELSE insert_sorted(sort_by_confidence(SubSeq(ms, 1, Len(ms) - 1)), ms[Len(ms)])

\* mutant of IsInProgress: every contract that was not terminated is a candidate
IsNotTerminated(c) == c.status # "terminated"

IsInProgress(c) == c.status = "in_progress"

\* mutant of match_all: the first candidate of the list is given the benefit of
\* the doubt
match_all_first_favoured(m, h_user, contracts) ==
    LET active_contracts == SelectSeq(contracts, IsInProgress)
        Scored(i) == match_user(m, h_user, active_contracts[i])
    IN  [i \in DOMAIN active_contracts |->
            IF i = 1 /\ Scored(i).decision = "needs_review"
            THEN [Scored(i) EXCEPT !.decision = "auto_accept"]
            ELSE Scored(i)]

\* find_best_match, lines 180-192: the matches of the in_progress contracts
match_all(m, h_user, contracts) ==
    LET active_contracts == SelectSeq(contracts, IsInProgress)
    IN  [i \in DOMAIN active_contracts |-> match_user(m, h_user, active_contracts[i])]

\* UserMatcher.find_best_match: <<>> for None
find_best_match(m, h_user, contracts) ==
    LET matches == match_all(m, h_user, contracts)
    IN  IF matches = <<>> THEN <<>>
        ELSE LET best == sort_by_confidence(matches)[1]
             IN  IF best.decision # "auto_reject" THEN <<best>> ELSE <<>>

---------------------------------------------------------------------------
\* MappingDatabase (database.py).  A row keeps the columns the code reads or
\* that tell two writes apart; created_at is the position in the table (a row is
\* always inserted with the current time), the two other timestamps are NULL or
\* "now".

NULL == "NULL"

ExactConfidence == [num |-> 1, den |-> 1]

NewRow(harvest_user_id, contract_id, match_method, confidence_score, verification_status) ==
    [harvest_user_id     |-> harvest_user_id,
     deel_contract_id    |-> contract_id,
     match_method        |-> match_method,
     confidence_score    |-> confidence_score,
     verification_status |-> verification_status,
     verified_by         |-> NULL,
     verified_at         |-> NULL,
     is_active           |-> TRUE]

\* mutant of create_mapping: a plain INSERT into a table without the UNIQUE key
create_mapping_insert_only(st, harvest_user_id, contract_id, match_method, confidence_score, verification_status) ==
    Append(st, NewRow(harvest_user_id, contract_id, match_method,
                      confidence_score, verification_status))

\* mutant of create_mapping: an existing row gets an UPDATE of its mapping
\* columns and keeps the others
create_mapping_update_existing(st, harvest_user_id, contract_id, match_method, confidence_score, verification_status) ==
    IF \E i \in DOMAIN st : st[i].harvest_user_id = harvest_user_id
    THEN [i \in DOMAIN st |->
            IF st[i].harvest_user_id = harvest_user_id
            THEN [st[i] EXCEPT !.deel_contract_id = contract_id,
                               !.match_method = match_method,
                               !.confidence_score = confidence_score]
            ELSE st[i]]
    ELSE Append(st, NewRow(harvest_user_id, contract_id, match_method,
                           confidence_score, verification_status))

\* MappingDatabase.create_mapping: INSERT OR REPLACE on the UNIQUE
\* harvest_user_id deletes the row in conflict and inserts a new one, whose
\* unnamed columns (verified_by, verified_at, is_active) take their defaults
create_mapping(st, harvest_user_id, contract_id, match_method, confidence_score, verification_status) ==
    LET IsOther(r) == r.harvest_user_id # harvest_user_id
    IN  Append(SelectSeq(st, IsOther),
               NewRow(harvest_user_id, contract_id, match_method,
                      confidence_score, verification_status))

\* mutant of get_deel_contract_by_harvest_id: a mapping still awaiting review
\* is not returned
get_deel_contract_accepted_only(st, harvest_user_id) ==
    LET IsHit(r) == /\ r.harvest_user_id = harvest_user_id
                    /\ r.is_active
                    /\ r.verification_status # "needs_review"
        hits == SelectSeq(st, IsHit)
    IN  IF hits = <<>> THEN NoneId ELSE hits[1].deel_contract_id

\* MappingDatabase.get_deel_contract_by_harvest_id: fetchone() of the active
\* rows of the user, or None
get_deel_contract_by_harvest_id(st, harvest_user_id) ==
    LET IsHit(r) == r.harvest_user_id = harvest_user_id /\ r.is_active
        hits == SelectSeq(st, IsHit)
    IN  IF hits = <<>> THEN NoneId ELSE hits[1].deel_contract_id

\* mutant of insert_by_score: ORDER BY confidence_score ASC
RECURSIVE insert_by_score_ascending(_, _)
insert_by_score_ascending(sorted, r) ==
    IF sorted = <<>> THEN <<r>>
    ELSE IF ConfGT(Head(sorted).confidence_score, r.confidence_score) THEN <<r>> \o sorted
    ELSE <<Head(sorted)>> \o insert_by_score_ascending(Tail(sorted), r)

\* ORDER BY confidence_score DESC (rows of equal score in table order)
RECURSIVE insert_by_score(_, _)
insert_by_score(sorted, r) ==
    IF sorted = <<>> THEN <<r>>
    ELSE IF ConfGT(r.confidence_score, Head(sorted).confidence_score) THEN <<r>> \o sorted
    ELSE <<Head(sorted)>> \o insert_by_score(Tail(sorted), r)

RECURSIVE order_by_score_desc(_)
order_by_score_desc(rows) ==
    IF rows = <<>> THEN <<>>
    ELSE insert_by_score(order_by_score_desc(SubSeq(rows, 1, Len(rows) - 1)), rows[Len(rows)])

\* MappingDatabase.get_pending_reviews
get_pending_reviews(st) ==
    LET IsPending(r) == r.verification_status = "needs_review" /\ r.is_active
    IN  order_by_score_desc(SelectSeq(st, IsPending))

Reverse(sq) == [i \in DOMAIN sq |-> sq[Len(sq) + 1 - i]]

\* MappingDatabase.get_all_mappings: the active rows, ORDER BY created_at DESC
get_all_mappings(st) ==
    LET IsActive(r) == r.is_active
    IN  Reverse(SelectSeq(st, IsActive))

\* mutant of verify_mapping: a rejection sets the status and leaves is_active
verify_mapping_reject_keeps_active(st, harvest_user_id, approved, verified_by) ==
    [i \in DOMAIN st |->
        IF st[i].harvest_user_id # harvest_user_id THEN st[i]
        ELSE [st[i] EXCEPT
                 !.verification_status = IF approved THEN "human_verified" ELSE "human_rejected",
                 !.verified_by = verified_by,
                 !.verified_at = "now"]]

\* MappingDatabase.verify_mapping: one UPDATE ... WHERE harvest_user_id = ?
verify_mapping(st, harvest_user_id, approved, verified_by) ==
    [i \in DOMAIN st |->
        IF st[i].harvest_user_id # harvest_user_id THEN st[i]
        ELSE IF approved
        THEN [st[i] EXCEPT !.verification_status = "human_verified",
                           !.verified_by = verified_by,
                           !.verified_at = "now"]
        ELSE [st[i] EXCEPT !.verification_status = "human_rejected",
                           !.is_active = FALSE,
                           !.verified_by = verified_by,
                           !.verified_at = "now"]]

---------------------------------------------------------------------------
\* DeelClient (deel_client.py): the external_id tag of each contract

\* set_external_id, the PATCH succeeded
set_external_id(tg, contract_id, harvest_user_id) ==
    [tg EXCEPT ![contract_id] = harvest_user_id]

\* find_contract_by_external_id, the GET succeeded: contracts[0] or None
find_contract_by_external_id(tg, harvest_user_id) ==
    LET hits == {c \in DOMAIN tg : tg[c] = harvest_user_id}
    IN  IF hits = {} THEN NoneId ELSE CHOOSE c \in hits : \A d \in hits : c <= d

---------------------------------------------------------------------------
\* The two systems the entry points read

\* a Deel-side name with the given library scores against h1 and against h2
NameWith(v1, v2) ==
    [empty |-> FALSE, vs |-> [h \in HarvestNames |-> IF h = "h1" THEN v1 ELSE v2]]

High == (Grid * 9) \div 10
Low == Grid \div 5

\* get_all_harvest_users() / get_harvest_users()
HarvestUsers ==
    << [id |-> 1, email |-> <<"a">>, name |-> "h1"],
       [id |-> 2, email |-> <<"b">>, name |-> "h2"] >>

\* deel.get_all_contracts(), the request succeeded: user 1 has the email and
\* nearly the title of contract 1; user 2 has nearly the worker name of
\* contract 2 and another email
DeelContracts ==
    << [id |-> 1, status |-> "in_progress",
        title |-> NameWith(<<Low, High, High, Low>>, <<Low, Low, 0, Low>>),
        worker |-> [present |-> TRUE, email |-> <<"A">>, full_name |-> EmptyName]],
       [id |-> 2, status |-> "in_progress",
        title |-> NameWith(<<0, Low, Low, 0>>, <<Low, 0, Low, Low>>),
        worker |-> [present |-> TRUE, email |-> <<"c">>,
                    full_name |-> NameWith(<<Low, 0, 0, Low>>, <<Low, Low, Low, High>>)]] >>

\* the same contracts when none is in progress any more
EndedContracts == [i \in DOMAIN DeelContracts |-> [DeelContracts[i] EXCEPT !.status = "completed"]]

\* the same contracts when Deel sends "worker": null for contract 1
NullWorkerContracts == [DeelContracts EXCEPT ![1].worker = NoWorker]

UserIds == {HarvestUsers[i].id : i \in DOMAIN HarvestUsers}
ContractIds == {DeelContracts[i].id : i \in DOMAIN DeelContracts}

EmptyResults ==
    [already_mapped |-> <<>>, auto_matched |-> <<>>, needs_review |-> <<>>, no_match |-> <<>>]

NoTags == [c \in ContractIds |-> NoneId]

---------------------------------------------------------------------------
\* The entry points.  One runs at a time (the store has a single writer); a
\* step is one call to the store, to Deel or to the matcher.

DefaultThresholds == [auto_accept |-> 90, review_threshold |-> 70]
SyncThresholds == [auto_accept |-> 85, review_threshold |-> 60]
PayrollThresholds == [auto_accept |-> 90, review_threshold |-> 70]
BulkThresholds == [auto_accept |-> 80, review_threshold |-> 65]

\* no second connection, and no call of normalize_name under observation
NoRace == writers = <<>> /\ db_lock = NoneId /\ commit_log = <<>>
NoName == raw_name = <<>> /\ normalized = <<>>

IdleLocals ==
    /\ dry_run = FALSE
    /\ existing = Unassigned
    /\ contract = Unassigned
    /\ deel_contract_id = Unassigned
    /\ results = EmptyResults
    /\ pending = <<>>
    /\ submitted = {}

Init ==
    /\ pc = "idle"
    /\ run = "idle"
    /\ matcher = DefaultThresholds
    /\ harvest_user = HarvestUsers[1]
    /\ deel_contracts = <<>>
    /\ all_matches = <<>>
    /\ match_result = <<>>
    /\ store = <<>>
    /\ tags = NoTags
    /\ IdleLocals
    /\ NoRace
    /\ NoName

ResetLocals ==
    /\ existing' = Unassigned
    /\ contract' = Unassigned
    /\ deel_contract_id' = Unassigned
    /\ match_result' = <<>>

UserIndex(u) == CHOOSE i \in DOMAIN HarvestUsers : HarvestUsers[i] = u

\* the for loop takes the next user, or ends
NextUser(first_pc) ==
    /\ IF UserIndex(harvest_user) < Len(HarvestUsers)
       THEN harvest_user' = HarvestUsers[UserIndex(harvest_user) + 1] /\ pc' = first_pc
       ELSE harvest_user' = harvest_user /\ pc' = "done"
    /\ ResetLocals

\* mutant of Record: a user without a match is logged and not listed
Record_matched_only(category) ==
    results' = IF category = "no_match" THEN results
               ELSE [results EXCEPT ![category] = Append(@, harvest_user.id)]

\* results[category].append(user)
Record(category) == results' = [results EXCEPT ![category] = Append(@, harvest_user.id)]

\* an entry point starts on the first user
Start(kind, thresholds, dry, first_pc) ==
    /\ run = "idle"
    /\ run' = kind
    /\ dry_run' = dry
    /\ matcher' = thresholds
    /\ harvest_user' = HarvestUsers[1]
    /\ pc' = first_pc
    /\ results' = EmptyResults
    /\ ResetLocals
    /\ UNCHANGED <<all_matches, store, tags, pending, submitted>>

\* get_all_contracts(): what Deel holds, or none when the request fails
Fetched(cs) == cs \in {DeelContracts, EndedContracts, NullWorkerContracts, <<>>}

\* contract_dict.get('worker', {}) is None: the key is there and holds null
WorkerIsNull(contract_id) ==
    \E i \in DOMAIN deel_contracts :
        deel_contracts[i].id = contract_id /\ ~deel_contracts[i].worker.present

\* an exception leaves the loop and the entry point: nothing catches it there
Abort ==
    /\ pc' = "aborted"
    /\ UNCHANGED <<harvest_user, match_result, store, existing, contract,
                   deel_contract_id, results>>

\* the entry point returns
Finish ==
    /\ run # "idle"
    /\ pc \in {"done", "aborted"}
    /\ run' = "idle"
    /\ pc' = "idle"
    /\ matcher' = DefaultThresholds
    /\ harvest_user' = HarvestUsers[1]
    /\ deel_contracts' = <<>>
    /\ dry_run' = FALSE
    /\ results' = EmptyResults
    /\ pending' = <<>>
    /\ submitted' = {}
    /\ ResetLocals
    /\ UNCHANGED <<all_matches, store, tags>>
    /\ UNCHANGED <<raceVars, nameVars>>

MatchedContract == match_result[1].deel_contract_id

\* ---- sync_user_mappings(dry_run) (sync_mappings.py) ----

StartSync ==
    /\ \E dry \in BOOLEAN : Start("sync", SyncThresholds, dry, "store_lookup")
    /\ Fetched(deel_contracts')
    /\ UNCHANGED <<raceVars, nameVars>>

\* Step 1: existing = db.get_deel_contract_by_harvest_id(user_id)
SyncStoreLookup ==
    /\ run = "sync" /\ pc = "store_lookup"
    /\ LET found == get_deel_contract_by_harvest_id(store, harvest_user.id)
       IN  IF found # NoneId
           THEN Record("already_mapped") /\ NextUser("store_lookup")
           ELSE /\ existing' = found
                /\ pc' = "tag_lookup"
                /\ UNCHANGED <<harvest_user, contract, deel_contract_id, match_result, results>>
    /\ UNCHANGED <<matcher, deel_contracts, all_matches, store, tags, run, dry_run,
                   pending, submitted>>
    /\ UNCHANGED <<raceVars, nameVars>>

\* Step 2: contract = deel.find_contract_by_external_id(user_id); None also
\* when the request fails
SyncTagLookup ==
    /\ run = "sync" /\ pc = "tag_lookup"
    /\ \E ok \in BOOLEAN :
          contract' = IF ok THEN find_contract_by_external_id(tags, harvest_user.id)
                      ELSE NoneId
    /\ pc' = IF contract' # NoneId THEN "backfill" ELSE "fuzzy"
    /\ UNCHANGED <<matcher, harvest_user, deel_contracts, all_matches, match_result,
                   store, tags, run, dry_run, existing, deel_contract_id, results,
                   pending, submitted>>
    /\ UNCHANGED <<raceVars, nameVars>>

\* mutant of SyncBackfill: the mapping found by its tag is left for review
SyncBackfill_for_review ==
    /\ run = "sync" /\ pc = "backfill"
    /\ \E ok \in BOOLEAN :
          IF ~dry_run /\ (WorkerIsNull(contract) \/ ~ok)
          THEN Abort
          ELSE /\ store' = IF dry_run THEN store
                           ELSE create_mapping(store, harvest_user.id, contract,
                                               "external_id_lookup", ExactConfidence,
                                               "needs_review")
               /\ Record("auto_matched")
               /\ NextUser("store_lookup")
    /\ UNCHANGED <<matcher, deel_contracts, all_matches, tags, run, dry_run,
                   pending, submitted>>
    /\ UNCHANGED <<raceVars, nameVars>>

\* the tag was found: create_mapping(..., 'external_id_lookup', 1.0) unless dry_run
SyncBackfill ==
    /\ run = "sync" /\ pc = "backfill"
    /\ \E ok \in BOOLEAN :
          IF ~dry_run /\ (WorkerIsNull(contract) \/ ~ok)
          THEN Abort
          ELSE /\ store' = IF dry_run THEN store
                           ELSE create_mapping(store, harvest_user.id, contract,
                                               "external_id_lookup", ExactConfidence,
                                               "auto_matched")
               /\ Record("auto_matched")
               /\ NextUser("store_lookup")
    /\ UNCHANGED <<matcher, deel_contracts, all_matches, tags, run, dry_run,
                   pending, submitted>>
    /\ UNCHANGED <<raceVars, nameVars>>

\* Step 3: match_result = matcher.find_best_match(user, deel_contracts)
SyncFuzzy ==
    /\ run = "sync" /\ pc = "fuzzy"
    /\ LET best == find_best_match(matcher, harvest_user, deel_contracts)
       IN  IF best = <<>>
           THEN Record("no_match") /\ NextUser("store_lookup")
           ELSE /\ match_result' = best
                /\ pc' = "create"
                /\ UNCHANGED <<harvest_user, existing, contract, deel_contract_id, results>>
    /\ UNCHANGED <<matcher, deel_contracts, all_matches, store, tags, run, dry_run,
                   pending, submitted>>
    /\ UNCHANGED <<raceVars, nameVars>>

\* deel_email = matched_contract.get('worker', {}).get('email', 'Unknown') raises
\* on a null worker; then the create_mapping of the auto_accept or of the
\* needs_review branch, which raises when the write fails
SyncCreate ==
    /\ run = "sync" /\ pc = "create"
    /\ \E ok \in BOOLEAN :
          IF WorkerIsNull(MatchedContract) \/ (~dry_run /\ ~ok)
          THEN Abort
          ELSE /\ store' = IF dry_run THEN store
                           ELSE create_mapping(store, harvest_user.id, MatchedContract,
                                               "auto_match", match_result[1].confidence,
                                               IF match_result[1].decision = "auto_accept"
                                               THEN "auto_matched" ELSE "needs_review")
               /\ IF match_result[1].decision = "auto_accept" /\ ~dry_run
                  THEN /\ pc' = "set_tag"
                       /\ UNCHANGED <<harvest_user, existing, contract, deel_contract_id,
                                      match_result, results>>
                  ELSE /\ Record(IF match_result[1].decision = "auto_accept"
                                 THEN "auto_matched" ELSE "needs_review")
                       /\ NextUser("store_lookup")
    /\ UNCHANGED <<matcher, deel_contracts, all_matches, tags, run, dry_run,
                   pending, submitted>>
    /\ UNCHANGED <<raceVars, nameVars>>

\* mutant of SyncSetTag: a failed PATCH takes the mapping back out of the store
SyncSetTag_undo_on_failure ==
    /\ run = "sync" /\ pc = "set_tag"
    /\ \E ok \in BOOLEAN :
          /\ tags' = IF ok THEN set_external_id(tags, MatchedContract, harvest_user.id)
                     ELSE tags
          /\ store' = IF ok THEN store
                      ELSE SelectSeq(store, LAMBDA r : r.harvest_user_id # harvest_user.id)
    /\ Record("auto_matched")
    /\ NextUser("store_lookup")
    /\ UNCHANGED <<matcher, deel_contracts, all_matches, run, dry_run, pending, submitted>>
    /\ UNCHANGED <<raceVars, nameVars>>

\* deel.set_external_id(match_result.deel_contract_id, user_id): the PATCH may fail
SyncSetTag ==
    /\ run = "sync" /\ pc = "set_tag"
    /\ \E ok \in BOOLEAN :
          tags' = IF ok THEN set_external_id(tags, MatchedContract, harvest_user.id) ELSE tags
    /\ Record("auto_matched")
    /\ NextUser("store_lookup")
    /\ UNCHANGED <<matcher, deel_contracts, all_matches, store, run, dry_run,
                   pending, submitted>>
    /\ UNCHANGED <<raceVars, nameVars>>

\* ---- sync_timesheets_to_deel(auto_match=True) (main.py) ----

StartPayroll ==
    /\ Start("payroll", PayrollThresholds, FALSE, "store_lookup")
    /\ deel_contracts' = <<>>
    /\ UNCHANGED <<raceVars, nameVars>>

\* Step 1: deel_contract_id = db.get_deel_contract_by_harvest_id(harvest_user_id)
PayrollStoreLookup ==
    /\ run = "payroll" /\ pc = "store_lookup"
    /\ deel_contract_id' = get_deel_contract_by_harvest_id(store, harvest_user.id)
    /\ pc' = IF deel_contract_id' # NoneId THEN "submit" ELSE "tag_lookup"
    /\ UNCHANGED <<matcher, harvest_user, deel_contracts, all_matches, match_result,
                   store, tags, run, dry_run, existing, contract, results, pending,
                   submitted>>
    /\ UNCHANGED <<raceVars, nameVars>>

\* Step 2: contract = deel_client.find_contract_by_external_id(harvest_user_id)
PayrollTagLookup ==
    /\ run = "payroll" /\ pc = "tag_lookup"
    /\ \E ok \in BOOLEAN :
          contract' = IF ok THEN find_contract_by_external_id(tags, harvest_user.id)
                      ELSE NoneId
    /\ deel_contract_id' = contract'
    /\ pc' = IF contract' # NoneId THEN "backfill" ELSE "fuzzy"
    /\ UNCHANGED <<matcher, harvest_user, deel_contracts, all_matches, match_result,
                   store, tags, run, dry_run, existing, results, pending, submitted>>
    /\ UNCHANGED <<raceVars, nameVars>>

\* "Save to database for next time"
PayrollBackfill ==
    /\ run = "payroll" /\ pc = "backfill"
    /\ \E ok \in BOOLEAN :
          IF ~ok THEN Abort
          ELSE /\ store' = create_mapping(store, harvest_user.id, deel_contract_id,
                                          "external_id_lookup", ExactConfidence,
                                          "auto_matched")
               /\ pc' = "submit"
    /\ UNCHANGED <<matcher, harvest_user, deel_contracts, all_matches, match_result,
                   tags, run, dry_run, existing, contract, deel_contract_id, results,
                   pending, submitted>>
    /\ UNCHANGED <<raceVars, nameVars>>

\* Step 3: get_all_contracts() and find_best_match; only an auto_accept is used
PayrollFuzzy ==
    /\ run = "payroll" /\ pc = "fuzzy"
    /\ Fetched(deel_contracts')
    /\ LET best == find_best_match(matcher, harvest_user, deel_contracts')
       IN  IF best # <<>> /\ best[1].decision = "auto_accept"
           THEN /\ match_result' = best
                /\ deel_contract_id' = best[1].deel_contract_id
                /\ pc' = "create"
           ELSE /\ match_result' = best
                /\ pc' = "submit"
                /\ UNCHANGED deel_contract_id
    /\ UNCHANGED <<matcher, harvest_user, all_matches, store, tags, run, dry_run,
                   existing, contract, results, pending, submitted>>
    /\ UNCHANGED <<raceVars, nameVars>>

PayrollCreate ==
    /\ run = "payroll" /\ pc = "create"
    /\ \E ok \in BOOLEAN :
          IF ~ok THEN Abort
          ELSE /\ store' = create_mapping(store, harvest_user.id, deel_contract_id,
                                          "auto_match", match_result[1].confidence,
                                          "auto_matched")
               /\ pc' = "set_tag"
    /\ UNCHANGED <<matcher, harvest_user, deel_contracts, all_matches, match_result,
                   tags, run, dry_run, existing, contract, deel_contract_id, results,
                   pending, submitted>>
    /\ UNCHANGED <<raceVars, nameVars>>

PayrollSetTag ==
    /\ run = "payroll" /\ pc = "set_tag"
    /\ \E ok \in BOOLEAN :
          tags' = IF ok THEN set_external_id(tags, deel_contract_id, harvest_user.id) ELSE tags
    /\ pc' = "submit"
    /\ UNCHANGED <<matcher, harvest_user, deel_contracts, all_matches, match_result,
                   store, run, dry_run, existing, contract, deel_contract_id, results,
                   pending, submitted>>
    /\ UNCHANGED <<raceVars, nameVars>>

\* Step 4: submit_timesheet when there is a contract; the POST may fail
PayrollSubmit ==
    /\ run = "payroll" /\ pc = "submit"
    /\ \E ok \in BOOLEAN :
          submitted' = IF deel_contract_id # NoneId /\ ok
                       THEN submitted \cup {<<harvest_user.id, deel_contract_id>>}
                       ELSE submitted
    /\ NextUser("store_lookup")
    /\ UNCHANGED <<matcher, deel_contracts, all_matches, store, tags, run, dry_run,
                   results, pending>>
    /\ UNCHANGED <<raceVars, nameVars>>

\* ---- initial_bulk_match(dry_run) (initial_setup.py) ----

StartBulk ==
    /\ \E dry \in BOOLEAN : Start("bulk", BulkThresholds, dry, "fuzzy")
    /\ Fetched(deel_contracts')
    /\ UNCHANGED <<raceVars, nameVars>>

\* mutant of BulkFuzzy: the writes are not under `if not dry_run`
BulkFuzzy_ignores_dry_run ==
    /\ run = "bulk" /\ pc = "fuzzy"
    /\ LET best == find_best_match(matcher, harvest_user, deel_contracts)
       IN  IF best = <<>>
           THEN Record("no_match") /\ NextUser("fuzzy")
           ELSE /\ Record(IF best[1].decision = "auto_accept"
                          THEN "auto_matched" ELSE "needs_review")
                /\ match_result' = best
                /\ pc' = "create"
                /\ UNCHANGED <<harvest_user, existing, contract, deel_contract_id>>
    /\ UNCHANGED <<matcher, deel_contracts, all_matches, store, tags, run, dry_run,
                   pending, submitted>>
    /\ UNCHANGED <<raceVars, nameVars>>

\* match_result = matcher.find_best_match(h_user, deel_contracts), and the
\* append to no_match, auto_matched or needs_review
BulkFuzzy ==
    /\ run = "bulk" /\ pc = "fuzzy"
    /\ LET best == find_best_match(matcher, harvest_user, deel_contracts)
       IN  IF best = <<>>
           THEN Record("no_match") /\ NextUser("fuzzy")
           ELSE /\ Record(IF best[1].decision = "auto_accept"
                          THEN "auto_matched" ELSE "needs_review")
                /\ IF dry_run
                   THEN NextUser("fuzzy")
                   ELSE /\ match_result' = best
                        /\ pc' = "create"
                        /\ UNCHANGED <<harvest_user, existing, contract, deel_contract_id>>
    /\ UNCHANGED <<matcher, deel_contracts, all_matches, store, tags, run, dry_run,
                   pending, submitted>>
    /\ UNCHANGED <<raceVars, nameVars>>

\* db.create_mapping of the auto_accept branch ('auto_match') or of the
\* needs_review branch ('fuzzy_match')
BulkCreate ==
    /\ run = "bulk" /\ pc = "create"
    /\ \E ok \in BOOLEAN :
          IF ~ok \/ (match_result[1].decision # "auto_accept" /\ WorkerIsNull(MatchedContract))
          THEN Abort
          ELSE IF match_result[1].decision = "auto_accept"
          THEN /\ store' = create_mapping(store, harvest_user.id, MatchedContract,
                                          "auto_match", match_result[1].confidence,
                                          "auto_matched")
               /\ pc' = "set_tag"
               /\ UNCHANGED <<harvest_user, existing, contract, deel_contract_id,
                              match_result>>
          ELSE /\ store' = create_mapping(store, harvest_user.id, MatchedContract,
                                          "fuzzy_match", match_result[1].confidence,
                                          "needs_review")
               /\ NextUser("fuzzy")
    /\ UNCHANGED <<matcher, deel_contracts, all_matches, tags, run, dry_run, results,
                   pending, submitted>>
    /\ UNCHANGED <<raceVars, nameVars>>

BulkSetTag ==
    /\ run = "bulk" /\ pc = "set_tag"
    /\ \E ok \in BOOLEAN :
          tags' = IF ok THEN set_external_id(tags, MatchedContract, harvest_user.id) ELSE tags
    /\ NextUser("fuzzy")
    /\ UNCHANGED <<matcher, deel_contracts, all_matches, store, run, dry_run, results,
                   pending, submitted>>
    /\ UNCHANGED <<raceVars, nameVars>>

\* ---- review_pending_matches() (review_matches.py) ----

\* pending = db.get_pending_reviews(); returns at once when there is none
StartReview ==
    /\ run = "idle"
    /\ run' = "review"
    /\ pending' = get_pending_reviews(store)
    /\ pc' = IF pending' = <<>> THEN "done" ELSE "choice"
    /\ UNCHANGED <<matcher, harvest_user, deel_contracts, all_matches, match_result,
                   store, tags, dry_run, existing, contract, deel_contract_id, results,
                   submitted>>
    /\ UNCHANGED <<raceVars, nameVars>>

\* the for loop over pending takes the next mapping, or ends
NextMapping ==
    /\ pending' = Tail(pending)
    /\ pc' = IF Tail(pending) = <<>> THEN "done" ELSE "choice"

\* mutant of ReviewChoiceOf: 'y' goes to the tag and leaves the verify out
ReviewChoiceOf_tag_without_verify(choice) ==
    /\ run = "review" /\ pc = "choice"
    /\ IF choice = "y"
       THEN /\ pc' = "set_tag"
            /\ UNCHANGED <<store, pending>>
       ELSE IF choice = "n"
       THEN /\ store' = verify_mapping(store, Head(pending).harvest_user_id,
                                       FALSE, "manual_review")
            /\ NextMapping
       ELSE /\ UNCHANGED store
            /\ NextMapping
    /\ UNCHANGED <<matcher, harvest_user, deel_contracts, all_matches, match_result,
                   tags, run, dry_run, existing, contract, deel_contract_id, results,
                   submitted>>
    /\ UNCHANGED <<raceVars, nameVars>>

\* mutant of ReviewChoiceOf: any answer but 'y' rejects
ReviewChoiceOf_skip_rejects(choice) ==
    /\ run = "review" /\ pc = "choice"
    /\ IF choice = "y"
       THEN /\ store' = verify_mapping(store, Head(pending).harvest_user_id,
                                       TRUE, "manual_review")
            /\ pc' = "set_tag"
            /\ UNCHANGED pending
       ELSE /\ store' = verify_mapping(store, Head(pending).harvest_user_id,
                                       FALSE, "manual_review")
            /\ NextMapping
    /\ UNCHANGED <<matcher, harvest_user, deel_contracts, all_matches, match_result,
                   tags, run, dry_run, existing, contract, deel_contract_id, results,
                   submitted>>
    /\ UNCHANGED <<raceVars, nameVars>>

\* choice = input(...): 'y' approves, 'n' rejects, anything else skips
ReviewChoiceOf(choice) ==
    /\ run = "review" /\ pc = "choice"
    /\ IF choice = "y"
       THEN /\ store' = verify_mapping(store, Head(pending).harvest_user_id,
                                       TRUE, "manual_review")
            /\ pc' = "set_tag"
            /\ UNCHANGED pending
       ELSE IF choice = "n"
       THEN /\ store' = verify_mapping(store, Head(pending).harvest_user_id,
                                       FALSE, "manual_review")
            /\ NextMapping
       ELSE /\ UNCHANGED store
            /\ NextMapping
    /\ UNCHANGED <<matcher, harvest_user, deel_contracts, all_matches, match_result,
                   tags, run, dry_run, existing, contract, deel_contract_id, results,
                   submitted>>
    /\ UNCHANGED <<raceVars, nameVars>>

ReviewChoice == \E choice \in {"y", "n", "s"} : ReviewChoiceOf(choice)

\* deel.set_external_id(mapping['deel_contract_id'], mapping['harvest_user_id'])
ReviewSetTag ==
    /\ run = "review" /\ pc = "set_tag"
    /\ \E ok \in BOOLEAN :
          tags' = IF ok THEN set_external_id(tags, Head(pending).deel_contract_id,
                                             Head(pending).harvest_user_id)
                  ELSE tags
    /\ NextMapping
    /\ UNCHANGED <<matcher, harvest_user, deel_contracts, all_matches, match_result,
                   store, run, dry_run, existing, contract, deel_contract_id, results,
                   submitted>>
    /\ UNCHANGED <<raceVars, nameVars>>

\* ---- the store called directly, between runs ----

\* db.verify_mapping(harvest_user_id, approved, verified_by) for any user id
VerifyMappingOf(u, approved) ==
    /\ run = "idle"
    /\ store' = verify_mapping(store, u, approved, "manual_review")
    /\ UNCHANGED <<matchVars, tags, runVars>>
    /\ UNCHANGED <<raceVars, nameVars>>

VerifyMapping == \E u \in UserIds, approved \in BOOLEAN : VerifyMappingOf(u, approved)

\* db.create_mapping(...) with the arguments a caller can pass for the pair
\* of user i and contract j
CreateMappingOf(i, j, status) ==
    /\ run = "idle"
    /\ store' = create_mapping(store, HarvestUsers[i].id, DeelContracts[j].id, "auto_match",
                               match_user(SyncThresholds, HarvestUsers[i],
                                          DeelContracts[j]).confidence,
                               status)
    /\ UNCHANGED <<matchVars, tags, runVars>>
    /\ UNCHANGED <<raceVars, nameVars>>

CreateMapping ==
    \E i \in DOMAIN HarvestUsers, j \in DOMAIN DeelContracts,
       status \in {"auto_matched", "needs_review"} : CreateMappingOf(i, j, status)

Next ==
    \/ StartSync \/ SyncStoreLookup \/ SyncTagLookup \/ SyncBackfill \/ SyncFuzzy
    \/ SyncCreate \/ SyncSetTag
    \/ StartPayroll \/ PayrollStoreLookup \/ PayrollTagLookup \/ PayrollBackfill
    \/ PayrollFuzzy \/ PayrollCreate \/ PayrollSetTag \/ PayrollSubmit
    \/ StartBulk \/ BulkFuzzy \/ BulkCreate \/ BulkSetTag
    \/ StartReview \/ ReviewChoice \/ ReviewSetTag
    \/ VerifyMapping \/ CreateMapping
    \/ Finish

Spec == Init /\ [][Next]_vars

---------------------------------------------------------------------------
\* The matcher on its own: find_best_match applied to bounded inputs

\* [auto_accept, review_threshold] in percent: the three pairs the entry points
\* configure, a pair above 1, and a pair with review above auto_accept
ThresholdConfigs ==
    {SyncThresholds, PayrollThresholds, BulkThresholds,
     [auto_accept |-> 150, review_threshold |-> 120],
     [auto_accept |-> 50, review_threshold |-> 90]}

\* a Deel-side name whose best library score against h1 is s
NameScoring(s) ==
    [empty |-> FALSE,
     vs |-> [h \in HarvestNames |->
                IF h = "h1" THEN [i \in 1..4 |-> IF i = (s % 4) + 1 THEN s ELSE s \div 2]
                ELSE NoScores]]

HarvestEmailSamples == {NoneStr, <<"a">>, <<" ", "A", " ">>}
DeelEmailSamples == {<<>>, <<" ">>, <<"a">>, <<"B">>}

HarvestSamples ==
    {[id |-> 1, email |-> e, name |-> n] : e \in HarvestEmailSamples, n \in {"", "h1"}}

NameSamples == {EmptyName} \cup {NameScoring(s) : s \in 0..Grid}

WorkerSamples ==
    {NoWorker} \cup {[present |-> TRUE, email |-> e, full_name |-> n] :
                         e \in DeelEmailSamples, n \in NameSamples}

\* single candidates over the whole score grid
WideContracts ==
    {[id |-> 1, status |-> "in_progress", title |-> t, worker |-> w] :
        t \in NameSamples, w \in WorkerSamples}

\* the lowest score the name rule accepts (name_similarity >= 0.95)
AcceptScore == (NameAcceptPct * Grid + 99) \div 100

\* candidates for the lists: email equal or different, scores on both sides of
\* the thresholds and of the name rule, and a terminated contract that would
\* score highest
PoolScores == {AcceptScore, (Grid * 3) \div 4, Grid \div 2}
PoolContracts ==
    {[status |-> "in_progress", title |-> NameScoring(sc),
      worker |-> [present |-> TRUE, email |-> e, full_name |-> EmptyName]] :
        e \in {<<"a">>, <<"B">>}, sc \in PoolScores}
    \cup {[status |-> "terminated", title |-> NameScoring(Grid),
           worker |-> [present |-> TRUE, email |-> <<"a">>, full_name |-> EmptyName]]}

WithId(c, i) ==
    [id |-> i, status |-> c.status, title |-> c.title, worker |-> c.worker]

CandidateLists ==
    UNION {{[i \in 1..n |-> WithId(f[i], i)] : f \in [1..n -> PoolContracts]} : n \in 0..MaxCands}

InitMatch ==
    /\ pc = "call"
    /\ run = "matcher"
    /\ matcher \in ThresholdConfigs
    /\ harvest_user \in HarvestSamples
    /\ deel_contracts \in CandidateLists \cup {<<c>> : c \in WideContracts}
    /\ all_matches = <<>>
    /\ match_result = <<>>
    /\ store = <<>>
    /\ tags = NoTags
    /\ IdleLocals
    /\ NoRace
    /\ NoName

\* find_best_match(harvest_user, deel_contracts)
FindBestMatch ==
    /\ pc = "call"
    /\ all_matches' = match_all(matcher, harvest_user, deel_contracts)
    /\ match_result' = find_best_match(matcher, harvest_user, deel_contracts)
    /\ pc' = "returned"
    /\ UNCHANGED <<matcher, harvest_user, deel_contracts, dbVars, runVars>>
    /\ UNCHANGED <<raceVars, nameVars>>

NextMatch == FindBestMatch

SpecMatch == InitMatch /\ [][NextMatch]_vars

\* ---- create_mapping from two runs at once: each run has its own connection
\* to the SQLite file, and SQLite lets one connection write at a time ----

Writers == {1, 2}

\* the user both runs resolve
RaceUser == HarvestUsers[1].id

\* the arguments a run passes to create_mapping for the user
RaceArgs ==
    [contract_id : ContractIds,
     match_method : {"auto_match", "fuzzy_match"},
     confidence_score : {ExactConfidence,
                         match_user(SyncThresholds, HarvestUsers[1],
                                    DeelContracts[1]).confidence},
     verification_status : {"auto_matched", "needs_review"}]

\* the row of another user, and the table before the two runs: without a row
\* of the user, or with a row a reviewer approved or rejected
OtherRow == NewRow(HarvestUsers[2].id, 2, "auto_match", ExactConfidence, "auto_matched")

RaceStores ==
    {<<OtherRow>>,
     verify_mapping(<<OtherRow, NewRow(RaceUser, 2, "auto_match", ExactConfidence,
                                       "needs_review")>>,
                    RaceUser, TRUE, "manual_review"),
     verify_mapping(<<NewRow(RaceUser, 1, "fuzzy_match", ExactConfidence, "needs_review"),
                      OtherRow>>,
                    RaceUser, FALSE, "manual_review")}

InitRace ==
    /\ pc = "race"
    /\ run = "race"
    /\ matcher = DefaultThresholds
    /\ harvest_user = HarvestUsers[1]
    /\ deel_contracts = <<>>
    /\ all_matches = <<>>
    /\ match_result = <<>>
    /\ store \in RaceStores
    /\ tags = NoTags
    /\ IdleLocals
    /\ writers \in [Writers -> [pc : {"connected"}, args : RaceArgs, txn : {<<>>}]]
    /\ db_lock = NoneId
    /\ commit_log = <<>>
    /\ NoName

\* cursor.execute('INSERT OR REPLACE ...'): the statement takes the write lock
\* and changes the table inside the connection's transaction
Execute(w) ==
    /\ run = "race"
    /\ writers[w].pc = "connected"
    /\ db_lock = NoneId
    /\ db_lock' = w
    /\ writers' = [writers EXCEPT
                      ![w].pc = "executed",
                      ![w].txn = create_mapping(store, RaceUser, writers[w].args.contract_id,
                                                writers[w].args.match_method,
                                                writers[w].args.confidence_score,
                                                writers[w].args.verification_status)]
    /\ UNCHANGED <<matchVars, dbVars, runVars, commit_log, nameVars>>

\* the lock is held by the other connection until the timeout:
\* sqlite3.OperationalError, database is locked
Locked(w) ==
    /\ run = "race"
    /\ writers[w].pc = "connected"
    /\ db_lock \notin {NoneId, w}
    /\ writers' = [writers EXCEPT ![w].pc = "failed"]
    /\ UNCHANGED <<matchVars, dbVars, runVars, db_lock, commit_log, nameVars>>

\* conn.commit(): the transaction becomes the table and the lock is released
Commit(w) ==
    /\ run = "race"
    /\ writers[w].pc = "executed"
    /\ store' = writers[w].txn
    /\ db_lock' = NoneId
    /\ commit_log' = Append(commit_log, w)
    /\ writers' = [writers EXCEPT ![w].pc = "committed"]
    /\ UNCHANGED <<matchVars, tags, runVars, nameVars>>

NextRace == \E w \in Writers : Execute(w) \/ Locked(w) \/ Commit(w)

SpecRace == InitRace /\ [][NextRace]_vars

\* ---- normalize_name on its own: applied to a string, then to its result ----

NameChars == {"a", "B", " ", ".", "-", "é"}

NameInputs == UNION {[1..n -> NameChars] : n \in 0..MaxNameLen}

InitNorm ==
    /\ pc = "call"
    /\ run = "normalize"
    /\ matcher = DefaultThresholds
    /\ harvest_user = HarvestUsers[1]
    /\ deel_contracts = <<>>
    /\ all_matches = <<>>
    /\ match_result = <<>>
    /\ store = <<>>
    /\ tags = NoTags
    /\ IdleLocals
    /\ NoRace
    /\ raw_name \in NameInputs
    /\ normalized = <<>>

\* normalize_name(raw_name), then normalize_name of what it returned
NormalizeName ==
    /\ run = "normalize"
    /\ Len(normalized) < 2
    /\ normalized' = Append(normalized,
                            normalize_name(IF normalized = <<>> THEN raw_name
                                           ELSE normalized[Len(normalized)]))
    /\ UNCHANGED <<matchVars, dbVars, runVars, raceVars, raw_name>>

NextNorm == NormalizeName

SpecNorm == InitNorm /\ [][NextNorm]_vars

---------------------------------------------------------------------------
\* A review session with other processes on the same database file: every
\* store call opens its own connection and commits on its own, so the calls
\* of the processes interleave

\* a second review_pending_matches session that read the same pending list
\* gives its verdict on one of the mappings: db.verify_mapping(...)
OtherReviewVerdict ==
    /\ run = "review"
    /\ \E k \in DOMAIN pending, approved \in BOOLEAN :
          store' = verify_mapping(store, pending[k].harvest_user_id, approved,
                                  "manual_review")
    /\ UNCHANGED <<matchVars, tags, runVars>>
    /\ UNCHANGED <<raceVars, nameVars>>

\* an initial_bulk_match(dry_run=False) of another process writes the mapping
\* of one user's best match
ConcurrentBulkCreate ==
    /\ run = "review"
    /\ \E i \in DOMAIN HarvestUsers :
          LET best == find_best_match(BulkThresholds, HarvestUsers[i], DeelContracts)
          IN  /\ best # <<>>
              /\ store' = IF best[1].decision = "auto_accept"
                          THEN create_mapping(store, HarvestUsers[i].id,
                                              best[1].deel_contract_id, "auto_match",
                                              best[1].confidence, "auto_matched")
                          ELSE create_mapping(store, HarvestUsers[i].id,
                                              best[1].deel_contract_id, "fuzzy_match",
                                              best[1].confidence, "needs_review")
    /\ UNCHANGED <<matchVars, tags, runVars>>
    /\ UNCHANGED <<raceVars, nameVars>>

NextConc ==
    \/ CreateMapping
    \/ StartReview \/ ReviewChoice \/ ReviewSetTag
    \/ OtherReviewVerdict \/ ConcurrentBulkCreate
    \/ Finish

SpecConc == Init /\ [][NextConc]_vars

---------------------------------------------------------------------------
\* Claims about the matcher (checked under SpecMatch)

Returned == pc = "returned"

\* the contract a match was computed from
ContractOf(r) == CHOOSE c \in Range(deel_contracts) : c.id = r.deel_contract_id

NameAccepts(r) == 100 * r.signals.name_similarity >= 95 * Grid

\* C2: the decision of every scored pair follows the ordered rules: name
\* similarity >= 0.95 gives auto_accept; else confidence >= auto_accept
\* threshold gives auto_accept; else confidence >= review threshold gives
\* needs_review; else auto_reject.
C2_DecisionRules ==
    Returned =>
        \A i \in DOMAIN all_matches :
            LET r  == all_matches[i]
                hi == 100 * r.confidence.num >= matcher.auto_accept * r.confidence.den
                lo == 100 * r.confidence.num >= matcher.review_threshold * r.confidence.den
            IN  /\ r.decision \in {"auto_accept", "needs_review", "auto_reject"}
                /\ NameAccepts(r) => r.decision = "auto_accept"
                /\ (~NameAccepts(r) /\ hi) => r.decision = "auto_accept"
                /\ (~NameAccepts(r) /\ ~hi /\ lo) => r.decision = "needs_review"
                /\ (~NameAccepts(r) /\ ~hi /\ ~lo) => r.decision = "auto_reject"

\* a pair below the name rule and in the review band, one accepted by the name
\* rule although its confidence is below the auto-accept threshold
C2_Witness ==
    /\ Returned
    /\ \E i \in DOMAIN all_matches :
           /\ ~NameAccepts(all_matches[i])
           /\ all_matches[i].decision = "needs_review"
           /\ matcher.review_threshold < matcher.auto_accept

\* C7: the confidence of every scored pair lies in [0,1] (the email signal is
\* 0 or 1, the name similarity in [0,1]).
C7_ConfidenceInUnitInterval ==
    Returned =>
        \A i \in DOMAIN all_matches :
            LET r == all_matches[i]
            IN  (r.signals.email_match \in 0..Grid /\ r.signals.name_similarity \in 0..Grid)
                => (r.confidence.den > 0 /\ 0 <= r.confidence.num
                    /\ r.confidence.num <= r.confidence.den)

\* both signals are 1 and the confidence is exactly 1
C7_Witness ==
    /\ Returned
    /\ \E i \in DOMAIN all_matches :
           /\ all_matches[i].signals.email_match = Grid
           /\ all_matches[i].signals.name_similarity = Grid
           /\ all_matches[i].confidence.num = all_matches[i].confidence.den

HasEmail(e) == e # NoneStr /\ e # <<>>

\* C8: with exactly matching non-empty emails and name similarity >= 0.95 the
\* decision is auto_accept, whatever the two thresholds are.
C8_ExactEmailAndNameAccepts ==
    Returned =>
        \A i \in DOMAIN all_matches :
            LET r == all_matches[i]
                c == ContractOf(r)
            IN  (/\ c.worker.present
                 /\ HasEmail(harvest_user.email)
                 /\ harvest_user.email = c.worker.email
                 /\ NameAccepts(r))
                => r.decision = "auto_accept"

\* such a pair under thresholds above 1
C8_Witness ==
    /\ Returned
    /\ matcher.auto_accept > 100 /\ matcher.review_threshold > 100
    /\ \E i \in DOMAIN all_matches :
           LET c == ContractOf(all_matches[i])
           IN  /\ c.worker.present
               /\ HasEmail(harvest_user.email)
               /\ harvest_user.email = c.worker.email
               /\ NameAccepts(all_matches[i])
               /\ all_matches[i].decision = "auto_accept"

BothHaveEmail(c) ==
    /\ normalize_email(harvest_user.email) # <<>>
    /\ c.worker.present
    /\ normalize_email(c.worker.email) # <<>>

EmailsEqual(c) ==
    BothHaveEmail(c) /\ normalize_email(harvest_user.email) = normalize_email(c.worker.email)

\* the equal-weighted mean (5 e + 5 n) / 10 and the reduced-weight value
\* (0.5 * 0 + 5 n) / 5.5
IsFullWeightMean(r) ==
    10 * Grid * r.confidence.num
        = (5 * r.signals.email_match + 5 * r.signals.name_similarity) * r.confidence.den
IsReducedWeight(r) ==
    11 * Grid * r.confidence.num = 10 * r.signals.name_similarity * r.confidence.den

\* C9 as claimed: the confidence is (5 e + 5 n) / 10 whenever both sides have
\* an email, and the reduced email weight 0.5 is used only when the email is
\* absent on at least one side.
C9_AsClaimed ==
    Returned =>
        \A i \in DOMAIN all_matches :
            LET r == all_matches[i]
                c == ContractOf(r)
            IN  /\ BothHaveEmail(c) => IsFullWeightMean(r)
                /\ (IsReducedWeight(r) /\ ~IsFullWeightMean(r)) => ~BothHaveEmail(c)

\* C9 amended: the confidence is (5 e + 5 n) / 10 exactly when the two
\* normalized emails are non-empty and equal; in every other case, an email
\* absent on a side or two different emails, it is 5 n / 5.5.
C9_WeightsByEmailEquality ==
    Returned =>
        \A i \in DOMAIN all_matches :
            LET r == all_matches[i]
                c == ContractOf(r)
            IN  /\ EmailsEqual(c) => (r.signals.email_match = Grid /\ IsFullWeightMean(r))
                /\ ~EmailsEqual(c) => (r.signals.email_match = 0 /\ IsReducedWeight(r))

\* two different emails, a positive name similarity, the reduced weight
C9_Witness ==
    /\ Returned
    /\ \E i \in DOMAIN all_matches :
           LET r == all_matches[i]
               c == ContractOf(r)
           IN  /\ BothHaveEmail(c) /\ ~EmailsEqual(c)
               /\ r.signals.name_similarity > 0
               /\ IsReducedWeight(r) /\ ~IsFullWeightMean(r)

\* positions of the in_progress candidates
ActiveIdx == {i \in DOMAIN deel_contracts : deel_contracts[i].status = "in_progress"}
ScoreAt(i) == match_user(matcher, harvest_user, deel_contracts[i])
\* i is the in_progress candidate of maximal confidence, earliest among equals
IsTop(i) ==
    /\ i \in ActiveIdx
    /\ \A j \in ActiveIdx :
           /\ ~ConfGT(ScoreAt(j).confidence, ScoreAt(i).confidence)
           /\ ConfEQ(ScoreAt(j).confidence, ScoreAt(i).confidence) => i <= j

\* C10: find_best_match looks at the in_progress candidates only, takes the
\* one of maximal confidence (the earliest in the list among equals), returns
\* its match, and returns None exactly when its decision is auto_reject (and
\* when no candidate is in_progress).
C10_BestMatchSelection ==
    Returned =>
        /\ ActiveIdx = {} => match_result = <<>>
        /\ \A i \in ActiveIdx :
               IsTop(i) =>
                   /\ (match_result = <<>>) <=> (ScoreAt(i).decision = "auto_reject")
                   /\ match_result # <<>> => match_result = <<ScoreAt(i)>>

\* two in_progress candidates share the maximal confidence, the earlier one is
\* returned, and a candidate that is not in_progress would have scored higher
C10_Witness ==
    /\ Returned
    /\ match_result # <<>>
    /\ \E i, j \in ActiveIdx :
           /\ i < j /\ IsTop(i)
           /\ ConfEQ(ScoreAt(i).confidence, ScoreAt(j).confidence)
           /\ match_result[1].deel_contract_id = deel_contracts[i].id
    /\ \E k \in DOMAIN deel_contracts :
           /\ k \notin ActiveIdx
           /\ ConfGT(ScoreAt(k).confidence, match_result[1].confidence)


\* the signals the decision is computed from
SameSignals(r1, r2) ==
    /\ r1.signals.email_match = r2.signals.email_match
    /\ r1.signals.name_similarity = r2.signals.name_similarity

CoreOf(e) ==
    IF e = NoneStr THEN <<>>
    ELSE LET solid == {i \in DOMAIN e : e[i] \notin WhiteSpace}
         IN  IF solid = {} THEN <<>>
             ELSE LET first == CHOOSE i \in solid : \A j \in solid : i <= j
                      last  == CHOOSE i \in solid : \A j \in solid : j <= i
                  IN  [i \in 1..(last - first + 1) |-> LowerOf(e[first + i - 1])]

\* the email of the contract's worker, none without a worker
DeelEmailOf(c) == IF c.worker.present THEN c.worker.email ELSE NoneStr

\* C21: the email signal is 1.0 exactly when the two emails, lowercased and
\* trimmed, are equal and not empty, and 0.0 otherwise; with an email missing
\* or blank on one side or both, or no worker on the contract, it is 0.0 and
\* every in_progress candidate still gets its match (nothing is raised).
C21_EmailSignal ==
    Returned =>
        /\ Len(all_matches) = Cardinality(ActiveIdx)
        /\ \A k \in DOMAIN all_matches :
               LET h == CoreOf(harvest_user.email)
                   d == CoreOf(DeelEmailOf(ContractOf(all_matches[k])))
               IN  all_matches[k].signals.email_match =
                       IF h # <<>> /\ h = d THEN Grid ELSE 0

\* an email with capitals and spaces around it matched the plain one
C21_Witness ==
    /\ Returned
    /\ harvest_user.email = <<" ", "A", " ">>
    /\ \E k \in DOMAIN all_matches :
           /\ DeelEmailOf(ContractOf(all_matches[k])) = <<"a">>
           /\ all_matches[k].signals.email_match = Grid

\* the four library scores of a Deel-side name against the user's name
FuzzScores(n2) == {n2.vs[harvest_user.name][i] : i \in 1..4}

\* the Deel-side names of a contract that match_user compares
DeelNamesOf(c) == {c.title, worker_of(c).full_name}

\* C22: compute_name_similarity gives score 0 with method missing_data when
\* one of the two names normalizes to "", and otherwise the greatest of the
\* four library scores, so a score in [0,1] that is not below any of them; the
\* name signal of a match is the better of the title's and the worker name's.
C22_NameSimilarityIsMax ==
    Returned =>
        \A k \in DOMAIN all_matches :
            LET c == ContractOf(all_matches[k])
            IN  /\ \A n2 \in DeelNamesOf(c) :
                       LET r == compute_name_similarity(harvest_user.name, n2)
                       IN  IF harvest_user.name = "" \/ n2.empty
                           THEN r.score = 0 /\ r.method = "missing_data"
                           ELSE /\ r.method = "fuzzy_name_match"
                                /\ r.score \in FuzzScores(n2)
                                /\ \A x \in FuzzScores(n2) : r.score >= x
                                /\ 0 <= r.score /\ r.score <= Grid
                /\ \E n2 \in DeelNamesOf(c) :
                       all_matches[k].signals.name_similarity =
                           compute_name_similarity(harvest_user.name, n2).score
                /\ \A n2 \in DeelNamesOf(c) :
                       all_matches[k].signals.name_similarity >=
                           compute_name_similarity(harvest_user.name, n2).score

\* the partial ratio alone is the greatest score of the title, and the
\* worker has no name
C22_Witness ==
    /\ Returned
    /\ harvest_user.name = "h1"
    /\ \E k \in DOMAIN all_matches :
           LET c == ContractOf(all_matches[k])
           IN  /\ ~c.title.empty
               /\ worker_of(c).full_name.empty
               /\ c.title.vs["h1"][4] > c.title.vs["h1"][1]
               /\ c.title.vs["h1"][4] > c.title.vs["h1"][2]
               /\ c.title.vs["h1"][4] > c.title.vs["h1"][3]
               /\ all_matches[k].signals.name_similarity = c.title.vs["h1"][4]

\* C25: when an in_progress candidate would get auto_accept from match_user,
\* find_best_match returns a match whose decision is auto_accept, for every
\* threshold configuration.
C25_AsClaimed ==
    Returned =>
        ((\E i \in ActiveIdx : ScoreAt(i).decision = "auto_accept") =>
             (match_result # <<>> /\ match_result[1].decision = "auto_accept"))

---------------------------------------------------------------------------
\* Claims about the store and the entry points, checked under Spec

RowsOf(st, u) == SelectSeq(st, LAMBDA r : r.harvest_user_id = u)

IdsOf(rows) == [i \in DOMAIN rows |-> rows[i].harvest_user_id]

NoRepeat(sq) == \A i, j \in DOMAIN sq : sq[i] = sq[j] => i = j

\* C1: the store holds at most one record per source id whatever upserts and
\* verifies have run, get_all_mappings lists a source at most once, and an
\* upsert for a source leaves exactly one record of it, a fresh one carrying
\* the values of that upsert (so of the later of two upserts).
C1_OneRecordPerSource ==
    [][ /\ \A u \in UserIds : Len(RowsOf(store', u)) <= 1
        /\ NoRepeat(IdsOf(get_all_mappings(store')))
        /\ \A i \in DOMAIN HarvestUsers, j \in DOMAIN DeelContracts,
              status \in {"auto_matched", "needs_review"} :
              CreateMappingOf(i, j, status) =>
                  RowsOf(store', HarvestUsers[i].id) =
                      << [harvest_user_id |-> HarvestUsers[i].id,
                          deel_contract_id |-> DeelContracts[j].id,
                          match_method |-> "auto_match",
                          confidence_score |->
                              match_user(SyncThresholds, HarvestUsers[i],
                                         DeelContracts[j]).confidence,
                          verification_status |-> status,
                          verified_by |-> NULL,
                          verified_at |-> NULL,
                          is_active |-> TRUE] >>
      ]_vars

\* user 1 was tagged on contract 1 by a run (which upserts 1 -> 1 before it
\* tags), a later upsert mapped user 1 to contract 2, and one record remains
C1_Witness ==
    /\ tags[1] = 1
    /\ Len(RowsOf(store, 1)) = 1
    /\ RowsOf(store, 1)[1].deel_contract_id = 2
    /\ Len(store) = 2

\* the step is verify_mapping(u, approved=False): the direct call, or the
\* reviewer's 'n' on the mapping of u
RejectStep(u) ==
    \/ VerifyMappingOf(u, FALSE)
    \/ /\ ReviewChoiceOf("n")
       /\ Head(pending).harvest_user_id = u

\* C3: right after verify(approved=False) on an existing record, the record
\* is inactive with status human_rejected, and get_all_mappings,
\* get_pending_reviews and get_deel_contract_by_harvest_id do not return it.
C3_RejectedIsHidden ==
    [][ \A u \in UserIds :
          (RowsOf(store, u) # <<>> /\ RejectStep(u)) =>
              /\ RowsOf(store', u) # <<>>
              /\ \A i \in DOMAIN store' :
                    store'[i].harvest_user_id = u =>
                        /\ ~store'[i].is_active
                        /\ store'[i].verification_status = "human_rejected"
              /\ \A i \in DOMAIN get_all_mappings(store') :
                    get_all_mappings(store')[i].harvest_user_id # u
              /\ \A i \in DOMAIN get_pending_reviews(store') :
                    get_pending_reviews(store')[i].harvest_user_id # u
              /\ get_deel_contract_by_harvest_id(store', u) = NoneId
      ]_vars

\* a review session is open on the mapping of user 1 while the mapping of
\* user 2, rejected by a reviewer, is in none of the three answers
C3_Witness ==
    /\ run = "review" /\ pc = "choice"
    /\ Head(pending).harvest_user_id = 1
    /\ \E i \in DOMAIN store :
          /\ store[i].harvest_user_id = 2
          /\ store[i].verification_status = "human_rejected"
          /\ ~store[i].is_active
          /\ store[i].verified_by = "manual_review"
    /\ get_deel_contract_by_harvest_id(store, 2) = NoneId

\* the step is a verify_mapping on u (either verdict)
VerifyStep(u) ==
    \/ \E approved \in BOOLEAN : VerifyMappingOf(u, approved)
    \/ /\ \E choice \in {"y", "n"} : ReviewChoiceOf(choice)
       /\ Head(pending).harvest_user_id = u

\* C4: a rejected record stays in the store: no upsert and no matching run
\* deletes it or writes another record over it (only a verify may change it).
C4_AsClaimed ==
    [][ \A i \in DOMAIN store :
          (store[i].verification_status = "human_rejected"
              /\ ~VerifyStep(store[i].harvest_user_id)) =>
              \E k \in DOMAIN store' : store'[k] = store[i]
      ]_vars

\* the iteration of the entry point looked the user up in the store and got
\* None (sync keeps the answer in existing, payroll in deel_contract_id)
StoreLookupReturnedNone ==
    IF run = "payroll" THEN deel_contract_id = NoneId ELSE existing = NoneId

\* the iteration looked the tag up in Deel and got None
TagLookupReturnedNone == contract = NoneId

\* C5: in each of sync_user_mappings, sync_timesheets_to_deel and
\* initial_bulk_match, find_best_match is called for a user only after the
\* store lookup and then the tag lookup of that user both returned none.
C5_AsClaimed ==
    (run \in {"sync", "payroll", "bulk"} /\ pc = "fuzzy") =>
        (StoreLookupReturnedNone /\ TagLookupReturnedNone)

\* the record of u is as a run persisted it: nobody has verified it since
PersistedUnverified(u) ==
    \E i \in DOMAIN store :
        /\ store[i].harvest_user_id = u
        /\ store[i].verification_status \in {"auto_matched", "needs_review"}

NoCandidate == \A i \in DOMAIN deel_contracts : deel_contracts[i].status # "in_progress"

\* C11: with an empty candidate list, or one without a contract in progress,
\* find_best_match returns None and raises nothing, and sync_user_mappings
\* lists the user under no_match and goes on, with no write to the store and
\* no tag written.
C11_NoCandidateIsNoMatch ==
    [][ (run = "sync" /\ pc = "fuzzy" /\ NoCandidate) =>
            /\ find_best_match(matcher, harvest_user, deel_contracts) = <<>>
            /\ results' = [results EXCEPT !.no_match = Append(@, harvest_user.id)]
            /\ pc' \in {"store_lookup", "done"}
            /\ store' = store
            /\ tags' = tags
      ]_vars

\* a non-dry sync run over contracts none of which is in progress has listed
\* both users under no_match
C11_Witness ==
    /\ run = "sync" /\ pc = "done" /\ ~dry_run
    /\ deel_contracts = EndedContracts
    /\ results.no_match = <<1, 2>>

\* the user has an outcome in the results of the run
Resolved(u) ==
    \E cat \in DOMAIN results : \E i \in DOMAIN results[cat] : results[cat][i] = u

\* C12: a failure while one user is resolved does not end the sync run: when
\* the run is over, every other user has been resolved and has an outcome.
C12_AsClaimed ==
    (run = "sync" /\ pc \in {"done", "aborted"}) =>
        \A u \in UserIds : u # harvest_user.id => Resolved(u)

\* how many times the user is listed in the four categories together
TimesListed(u) ==
    LET Hits(cat) == Cardinality({i \in DOMAIN results[cat] : results[cat][i] = u})
    IN  Hits("already_mapped") + Hits("auto_matched") + Hits("needs_review")
            + Hits("no_match")

\* C13: when a sync run has completed, every user is in exactly one of
\* already_mapped, auto_matched, needs_review, no_match, and the four counts
\* add up to the number of users.
C13_EveryUserInOneCategory ==
    (run = "sync" /\ pc = "done") =>
        /\ \A u \in UserIds : TimesListed(u) = 1
        /\ Len(results.already_mapped) + Len(results.auto_matched)
              + Len(results.needs_review) + Len(results.no_match) = Len(HarvestUsers)

\* a completed run with the two users in two different categories
C13_Witness ==
    /\ run = "sync" /\ pc = "done"
    /\ results.auto_matched = <<1>>
    /\ results.needs_review = <<2>>


\* the user whose contract the set_external_id call of this step tags
TaggedUser == IF run = "review" THEN Head(pending).harvest_user_id ELSE harvest_user.id

\* C14: when the tag write fails after an accepted match (the tags are as
\* before the step), the mapping persisted for the user is still in the
\* store, active and with its accepted status, the store is unchanged and the
\* run goes on to its next step.
C14_TagFailureKeepsMapping ==
    [][ (pc = "set_tag" /\ tags' = tags) =>
            /\ store' = store
            /\ \E i \in DOMAIN store' :
                  /\ store'[i].harvest_user_id = TaggedUser
                  /\ store'[i].is_active
                  /\ store'[i].verification_status \in {"auto_matched", "human_verified"}
            /\ get_deel_contract_by_harvest_id(store', TaggedUser) # NoneId
            /\ pc' \in {"store_lookup", "fuzzy", "submit", "choice", "done"}
      ]_vars

\* a non-dry sync run auto-matched user 1, the tag write failed (no contract
\* carries a tag), and the mapping of user 1 is there
C14_Witness ==
    /\ run = "sync" /\ pc = "done" /\ ~dry_run
    /\ results.auto_matched = <<1>>
    /\ tags = NoTags
    /\ \E i \in DOMAIN store :
          /\ store[i].harvest_user_id = 1
          /\ store[i].is_active
          /\ store[i].verification_status = "auto_matched"

\* the record under review, as the store holds it
ReviewedRows(st) == RowsOf(st, Head(pending).harvest_user_id)

\* C15: in a review session, approving goes to the tag write only with the
\* record verified (human_verified by manual_review) and writes no tag itself;
\* a tag is written only at that later step, on the contract of the approved
\* record; rejecting writes no tag and does not lead to a tag write.
C15_ApproveVerifiesThenTags ==
    [][ run = "review" =>
            /\ (pc = "choice" /\ pc' = "set_tag") =>
                  /\ tags' = tags
                  /\ store' = verify_mapping(store, Head(pending).harvest_user_id,
                                             TRUE, "manual_review")
                  /\ ReviewedRows(store')[1].verification_status = "human_verified"
            /\ tags' # tags =>
                  /\ pc = "set_tag"
                  /\ ReviewedRows(store)[1].verification_status = "human_verified"
                  /\ ReviewedRows(store)[1].verified_by = "manual_review"
                  /\ tags' = [tags EXCEPT ![Head(pending).deel_contract_id] =
                                              Head(pending).harvest_user_id]
                  /\ store' = store
            /\ ReviewChoiceOf("n") =>
                  /\ tags' = tags
                  /\ pc' # "set_tag"
                  /\ ReviewedRows(store')[1].verification_status = "human_rejected"
      ]_vars

\* a review session approved and tagged the mapping of user 1 and rejected
\* the mapping of user 2 to contract 2, which carries no tag
C15_Witness ==
    /\ run = "review" /\ pc = "done"
    /\ tags[1] = 1 /\ tags[2] = NoneId
    /\ \E i \in DOMAIN store :
          /\ store[i].harvest_user_id = 1
          /\ store[i].verification_status = "human_verified"
    /\ \E i \in DOMAIN store :
          /\ store[i].harvest_user_id = 2
          /\ store[i].deel_contract_id = 2
          /\ store[i].verification_status = "human_rejected"

\* the reviewer's answer is neither 'y' nor 'n'
SkipStep == \E choice \in {"y", "n", "s"} \ {"y", "n"} : ReviewChoiceOf(choice)

\* C16: a skip changes no field of the record and writes no tag, and
\* get_pending_reviews still returns the record afterwards.
C16_SkipLeavesRecordPending ==
    [][ SkipStep =>
            /\ store' = store
            /\ tags' = tags
            /\ ReviewedRows(store') = <<Head(pending)>>
            /\ \E i \in DOMAIN get_pending_reviews(store') :
                  get_pending_reviews(store')[i] = Head(pending)
      ]_vars

\* a review session is over and a mapping it showed is still pending
C16_Witness ==
    /\ run = "review" /\ pc = "done"
    /\ get_pending_reviews(store) # <<>>


\* the rows get_pending_reviews is to return
IsPendingRow(r) == r.is_active /\ r.verification_status = "needs_review"

\* C19: in every reachable state of the store, get_pending_reviews returns
\* exactly the active rows whose status is needs_review, each once, in order of
\* non-increasing confidence.
C19_PendingReviewsExactAndSorted ==
    LET p == get_pending_reviews(store)
    IN  /\ \A i \in DOMAIN store :
               IsPendingRow(store[i]) <=> \E k \in DOMAIN p : p[k] = store[i]
        /\ \A k \in DOMAIN p : \E i \in DOMAIN store : store[i] = p[k]
        /\ Len(p) = Cardinality({i \in DOMAIN store : IsPendingRow(store[i])})
        /\ \A k, l \in DOMAIN p :
               k < l => ~ConfGT(p[l].confidence_score, p[k].confidence_score)

\* two mappings are pending and the one of higher confidence, returned first,
\* is the later row of the table
C19_Witness ==
    /\ Len(store) = 2
    /\ Len(get_pending_reviews(store)) = 2
    /\ get_pending_reviews(store)[1] = store[2]
    /\ ConfGT(store[2].confidence_score, store[1].confidence_score)


---------------------------------------------------------------------------
\* Claims about normalize_name, checked under SpecNorm

\* C18: normalize_name is idempotent: normalizing the result of normalize_name
\* gives that result again, for every string of letters, digits, whitespace,
\* hyphens and other punctuation.
C18_AsClaimed ==
    Len(normalized) = 2 => normalized[2] = normalized[1]


---------------------------------------------------------------------------
\* Claims about concurrent upserts, checked under SpecRace

\* the connection that committed last
LastWriter == commit_log[Len(commit_log)]

---------------------------------------------------------------------------
\* Claims about the runs and the store, checked under Spec

\* a step of a sync or bulk run that was started with dry_run=True
DryStep == run \in {"sync", "bulk"} /\ dry_run

BackfillStep == run \in {"sync", "payroll"} /\ pc = "backfill" /\ ~dry_run

\* the contract the tag lookup found
TagTarget == IF run = "sync" THEN contract ELSE deel_contract_id

IsBackfilled(st, u, t) ==
    \E i \in DOMAIN st :
        st[i] = NewRow(u, t, "external_id_lookup", ExactConfidence, "auto_matched")

IsRejected(st, u) ==
    \E i \in DOMAIN st :
        st[i].harvest_user_id = u /\ st[i].verification_status = "human_rejected"

\* user u is listed by get_pending_reviews or by get_all_mappings
IsListed(st, u) ==
    \/ \E i \in DOMAIN get_pending_reviews(st) : get_pending_reviews(st)[i].harvest_user_id = u
    \/ \E i \in DOMAIN get_all_mappings(st) : get_all_mappings(st)[i].harvest_user_id = u

\* C26: once the mapping of a user is rejected, no step of a later
\* sync_user_mappings run makes a mapping of that user active again: the user
\* is in neither pending_reviews nor all_active after the step.
C26_AsClaimed ==
    [][ (run = "sync" /\ IsRejected(store, harvest_user.id)) =>
            ~IsListed(store', harvest_user.id) ]_vars

\* C27: a step of an automated run (sync_user_mappings,
\* sync_timesheets_to_deel, initial_bulk_match) leaves every human_verified
\* record with its target_id, verification_status, verified_by and verified_at.
C27_AsClaimed ==
    [][ (run \in {"sync", "payroll", "bulk"}) =>
            \A i \in DOMAIN store :
                store[i].verification_status = "human_verified" =>
                    \E j \in DOMAIN store' :
                        /\ store'[j].harvest_user_id = store[i].harvest_user_id
                        /\ store'[j].deel_contract_id = store[i].deel_contract_id
                        /\ store'[j].verification_status = store[i].verification_status
                        /\ store'[j].verified_by = store[i].verified_by
                        /\ store'[j].verified_at = store[i].verified_at
      ]_vars

\* the store holds an active, accepted mapping of user u to contract t
IsAccepted(st, u, t) ==
    \E i \in DOMAIN st :
        /\ st[i].harvest_user_id = u
        /\ st[i].deel_contract_id = t
        /\ st[i].is_active
        /\ st[i].verification_status \in {"auto_matched", "human_verified"}

\* C28: sync_timesheets_to_deel submits a timesheet only against a contract
\* whose mapping is accepted (auto_matched, human_verified, or just written
\* for an auto_accept match), never against a needs_review mapping.
C28_AsClaimed ==
    [][ (run = "payroll") =>
            \A p \in submitted' \ submitted : IsAccepted(store, p[1], p[2]) ]_vars

\* C30: in every store that create_mapping and verify_mapping calls lead to,
\* a record is inactive exactly when its status is human_rejected.
C30_AsClaimed ==
    \A i \in DOMAIN store :
        (~store[i].is_active) <=> (store[i].verification_status = "human_rejected")

---------------------------------------------------------------------------
\* Claims about a review session among other processes, checked under SpecConc

\* C29: whenever the review session writes the tag of user s on contract t
\* after an approve, the store holds at that moment an active record of s to
\* t with status human_verified, also when a matching run or a second review
\* session changed the store after the session read get_pending_reviews().
C29_AsClaimed ==
    [][ (run = "review" /\ pc = "set_tag" /\ tags' # tags) =>
            \E i \in DOMAIN store :
                /\ store[i].harvest_user_id = Head(pending).harvest_user_id
                /\ store[i].deel_contract_id = Head(pending).deel_contract_id
                /\ store[i].is_active
                /\ store[i].verification_status = "human_verified"
      ]_vars

====
